---------------------------- MODULE Spec2Model ----------------------------
(***************************************************************************)
(* The explorer (virtual file system) of client/src/utils/pg: the class    *)
(* Explorer and the static path helpers of PgExplorer.                     *)
(*                                                                         *)
(* A path is a JavaScript string, modelled as a sequence of one-character  *)
(* strings, so that split("/"), startsWith and endsWith are computed       *)
(* character by character as the code computes them.                       *)
(*                                                                         *)
(* this._explorer.files is a JavaScript object used as an ordered map: it  *)
(* is modelled as a sequence of [path, info] entries in insertion order    *)
(* (the order for-in and Object.keys enumerate string keys in).  An ItemInfo*)
(* is a JavaScript object with optional properties content, current and    *)
(* tabs: it is modelled as a function whose domain is the set of the       *)
(* properties that are present, so {} is the function with empty domain.   *)
(***************************************************************************)
EXTENDS Integers, Sequences, FiniteSets, TLC

VARIABLES
    files,      \* this._explorer.files
    last,       \* the last call made: [op, path, arg, err]
    calls,      \* the number of calls made so far
    ls,         \* localStorage: <<>> or <<the text stored under EXPLORER_KEY>>
    other       \* the _explorer of a second Explorer instance, if any

vars == <<files, last, calls, ls, other>>

----------------------------------------------------------------------------
(* Bounds of the model *)

\* The number of calls made on the explorer after its construction
MaxCalls == 4

\* The same number, when the calls include those on localStorage and the
\* construction of a second instance
MaxStoreCalls == 3

\* The same number, when the calls include getFolderContent and items are
\* made in nested folders
MaxFolderCalls == 3

----------------------------------------------------------------------------
(* Strings *)

\* The characters \w of the regular expression that occur in the model
WordChars == {"a", "b", "c", "i", "l", "r", "s"}

\* String.prototype.startsWith
StartsWith(s, prefix) ==
    /\ Len(prefix) <= Len(s)
    /\ SubSeq(s, 1, Len(prefix)) = prefix

\* String.prototype.endsWith("/")
EndsWithSlash(s) == Len(s) > 0 /\ s[Len(s)] = "/"

\* String.prototype.split("/"): the segments between the separators
RECURSIVE SplitFrom(_, _, _)
SplitFrom(s, i, cur) ==
    IF i > Len(s) THEN <<cur>>
    ELSE IF s[i] = "/" THEN <<cur>> \o SplitFrom(s, i + 1, <<>>)
    ELSE SplitFrom(s, i + 1, Append(cur, s[i]))

Split(s) == SplitFrom(s, 1, <<>>)

\* sub occurs in s at the 1-based position i
OccursAt(s, sub, i) ==
    /\ i >= 1
    /\ i + Len(sub) - 1 <= Len(s)
    /\ SubSeq(s, i, i + Len(sub) - 1) = sub

\* String.prototype.includes
Includes(s, sub) == \E i \in 1..(Len(s) + 1) : OccursAt(s, sub, i)

\* String.prototype.indexOf, 1-based, for a string that includes sub
FirstIndexOf(s, sub) ==
    CHOOSE i \in 1..(Len(s) + 1) :
        /\ OccursAt(s, sub, i)
        /\ \A j \in 1..(i - 1) : ~OccursAt(s, sub, j)

\* s.split(sep)[1] for a non-empty sep that s includes: the text between the
\* first occurrence of sep and the next one, or the end of s
SplitSecond(s, sep) ==
    LET rest == SubSeq(s, FirstIndexOf(s, sep) + Len(sep), Len(s))
    IN  IF Includes(rest, sep)
        THEN SubSeq(rest, 1, FirstIndexOf(rest, sep) - 1)
        ELSE rest

\* String.prototype.includes("..")
IncludesDotDot(s) == \E i \in 1..(Len(s) - 1) : s[i] = "." /\ s[i + 1] = "."

\* String.prototype.includes("//")
IncludesSlashSlash(s) == \E i \in 1..(Len(s) - 1) : s[i] = "/" /\ s[i + 1] = "/"

----------------------------------------------------------------------------
(* PgExplorer: static path helpers *)

getItemTypeFromPath(path) == IF EndsWithSlash(path) THEN "folder" ELSE "file"

getItemNameFromPath(path) ==
    LET itemsArr == Split(path)
    IN  IF getItemTypeFromPath(path) = "folder"
        THEN itemsArr[Len(itemsArr) - 1]
        ELSE itemsArr[Len(itemsArr)]

RECURSIVE ParentLoop(_, _, _, _)
ParentLoop(itemsArr, i, end, parentPath) ==
    IF i > end THEN parentPath
    ELSE IF itemsArr[i] = <<>> THEN ParentLoop(itemsArr, i + 1, end, parentPath)
    ELSE ParentLoop(itemsArr, i + 1, end, parentPath \o itemsArr[i] \o <<"/">>)

getParentPathFromPath(path) ==
    LET itemsArr == Split(path)
    IN  IF getItemTypeFromPath(path) = "folder"
        THEN ParentLoop(itemsArr, 1, Len(itemsArr) - 2, <<"/">>)
        ELSE ParentLoop(itemsArr, 1, Len(itemsArr) - 1, <<"/">>)

\* isItemNameValid without the negative lookahead (?!\.)
isItemNameValid_NoLookahead(name) ==
    /\ Len(name) > 0
    /\ \A i \in 1..Len(name) : name[i] \in WordChars \cup {".", "-"}
    /\ ~IncludesSlashSlash(name)
    /\ ~IncludesDotDot(name)

\* /^(?!\.)[\w.-]+$/ and no "//" and no ".."
isItemNameValid(name) ==
    /\ Len(name) > 0
    /\ name[1] # "."
    /\ \A i \in 1..Len(name) : name[i] \in WordChars \cup {".", "-"}
    /\ ~IncludesSlashSlash(name)
    /\ ~IncludesDotDot(name)

----------------------------------------------------------------------------
(* ItemInfo objects and the files map *)

EmptyInfo == [k \in {} |-> TRUE]

\* info[k] as a condition: undefined and false are both falsy
Truthy(info, k) == k \in DOMAIN info /\ info[k] = TRUE

\* info[k] = v
SetProp(info, k, v) ==
    [j \in DOMAIN info \cup {k} |-> IF j = k THEN v ELSE info[j]]

Keys(fs) == [i \in 1..Len(fs) |-> fs[i].path]

KeySet(fs) == {fs[i].path : i \in 1..Len(fs)}

HasKey(fs, path) == path \in KeySet(fs)

IndexOf(fs, path) == CHOOSE i \in 1..Len(fs) : fs[i].path = path

\* files[path], for a key of the map
Get(fs, path) == fs[IndexOf(fs, path)].info

\* files[path] = info: an existing key keeps its place, a new key goes last
Put(fs, path, info) ==
    IF HasKey(fs, path)
    THEN [fs EXCEPT ![IndexOf(fs, path)].info = info]
    ELSE Append(fs, [path |-> path, info |-> info])

\* delete files[path]
Delete(fs, path) == SelectSeq(fs, LAMBDA e : e.path # path)


\* if (files[path]): every value stored in the map is an object, so the test
\* is true exactly when path is a key
Exists(fs, path) == HasKey(fs, path)

----------------------------------------------------------------------------
(* Program constants *)

DEFAULT_FILE == <<"/", "s", "r", "c", "/", "l", "i", "b", ".", "r", "s">>

DEFAULT_CODE == "use anchor_lang::prelude::*; ..."

DEFAULT_EXPLORER ==
    <<[path |-> DEFAULT_FILE,
       info |-> [content |-> DEFAULT_CODE, tabs |-> TRUE, current |-> TRUE]]>>

----------------------------------------------------------------------------
(* localStorage and JSON *)

\* JSON.stringify that leaves out the property current
JSONstringify_DropsCurrent(fs) ==
    [i \in 1..Len(fs) |->
        [key |-> fs[i].path,
         value |-> [k \in DOMAIN fs[i].info \ {"current"} |-> fs[i].info[k]]]]

\* JSON.stringify(explorer): the members of files in order, each with the
\* properties of its ItemInfo whose value is not undefined
JSONstringify(fs) ==
    [i \in 1..Len(fs) |->
        [key |-> fs[i].path,
         value |-> [k \in DOMAIN fs[i].info |-> fs[i].info[k]]]]

\* JSON.parse(text).files: a new object with the members of the text
JSONparse(text) ==
    [i \in 1..Len(text) |-> [path |-> text[i].key, info |-> text[i].value]]

----------------------------------------------------------------------------
(* Explorer: queries and tab / current-file bookkeeping *)

\* The path of the first entry with a truthy current, or <<>> for null
getCurrentFile(fs) ==
    LET cur == {i \in 1..Len(fs) : Truthy(fs[i].info, "current")}
    IN  IF cur = {} THEN <<>>
        ELSE fs[CHOOSE i \in cur : \A j \in cur : i <= j].path

\* The entries with a truthy tabs, in map order
getTabs(fs) == SelectSeq(fs, LAMBDA e : Truthy(e.info, "tabs"))

\* The decimal digits of n: the property names of an array are its indices
RECURSIVE IndexKey(_)
IndexKey(n) ==
    IF n < 10 THEN <<ToString(n)>>
    ELSE IndexKey(n \div 10) \o <<ToString(n % 10)>>

\* changeCurrentFile without the reset of the previous current file
changeCurrentFile_KeepsPrevious(fs, newPath) ==
    LET f2 == Put(fs, newPath, SetProp(Get(fs, newPath), "current", TRUE))
    IN  Put(f2, newPath, SetProp(Get(f2, newPath), "tabs", TRUE))

\* changeCurrentFile that resets the previous current file after it has set
\* the new one
changeCurrentFile_ResetsLast(fs, newPath) ==
    LET curFile == getCurrentFile(fs)
        f1 == Put(fs, newPath, SetProp(Get(fs, newPath), "current", TRUE))
        f2 == IF curFile # <<>>
              THEN Put(f1, curFile, SetProp(Get(f1, curFile), "current", FALSE))
              ELSE f1
    IN  Put(f2, newPath, SetProp(Get(f2, newPath), "tabs", TRUE))

changeCurrentFile(fs, newPath) ==
    LET curFile == getCurrentFile(fs)
        f1 == IF curFile # <<>>
              THEN Put(fs, curFile, SetProp(Get(fs, curFile), "current", FALSE))
              ELSE fs
        f2 == Put(f1, newPath, SetProp(Get(f1, newPath), "current", TRUE))
        tabs == getTabs(f2)
    IN  \* for (const path in tabs) enumerates the indices of the array
        IF \E i \in 0..(Len(tabs) - 1) : IndexKey(i) = newPath
        THEN f2
        ELSE Put(f2, newPath, SetProp(Get(f2, newPath), "tabs", TRUE))

\* changeCurrentFileToTheLastTab that takes the first tab
changeCurrentFileToTheLastTab_First(fs) ==
    LET tabs == getTabs(fs)
    IN  IF Len(tabs) = 0 THEN fs
        ELSE changeCurrentFile(fs, tabs[1].path)

changeCurrentFileToTheLastTab(fs) ==
    LET tabs == getTabs(fs)
    IN  IF Len(tabs) = 0 THEN fs
        ELSE changeCurrentFile(fs, tabs[Len(tabs)].path)

removeFromTabs(fs, path) ==
    changeCurrentFileToTheLastTab(
        Put(fs, path, SetProp(Get(fs, path), "tabs", FALSE)))

saveFile(fs, path, content) ==
    IF Exists(fs, path)
    THEN Put(fs, path, SetProp(Get(fs, path), "content", content))
    ELSE fs

\* Array.prototype.includes
InArray(arr, x) == \E i \in 1..Len(arr) : arr[i] = x

\* The for-in loop of getFolderContent
RECURSIVE FolderContentLoop(_, _, _, _)
FolderContentLoop(fs, i, path, filesAndFolders) ==
    IF i > Len(fs) THEN filesAndFolders
    ELSE LET itemPath == fs[i].path
         IN  IF ~Includes(itemPath, path)
             THEN FolderContentLoop(fs, i + 1, path, filesAndFolders)
             ELSE LET item == Split(SplitSecond(itemPath, path))[1]
                  IN  IF /\ ~InArray(filesAndFolders.files, item)
                         /\ ~InArray(filesAndFolders.folders, item)
                         /\ item # <<>>
                      THEN IF Includes(item, <<".">>)
                           THEN FolderContentLoop(fs, i + 1, path,
                                    [filesAndFolders EXCEPT
                                        !.files = Append(@, item)])
                           ELSE FolderContentLoop(fs, i + 1, path,
                                    [filesAndFolders EXCEPT
                                        !.folders = Append(@, item)])
                      ELSE FolderContentLoop(fs, i + 1, path, filesAndFolders)

getFolderContent(fs, path) ==
    FolderContentLoop(fs, 1, path, [folders |-> <<>>, files |-> <<>>])

----------------------------------------------------------------------------
(* Explorer: structural mutations; each returns [files, err] *)

Ok(fs) == [files |-> fs, err |-> "none"]

Err(fs, e) == [files |-> fs, err |-> e]

\* newItem that stores the new file without making it the current file
newItem_NoMakeCurrent(fs, fullPath) ==
    IF ~isItemNameValid(getItemNameFromPath(fullPath))
    THEN Err(fs, "InvalidName")
    ELSE IF Exists(fs, fullPath)
    THEN Err(fs, "AlreadyExists")
    ELSE IF getItemTypeFromPath(fullPath) = "folder"
    THEN Ok(Put(fs, fullPath, EmptyInfo))
    ELSE Ok(Put(fs, fullPath, [content |-> "", current |-> TRUE, tabs |-> TRUE]))

newItem(fs, fullPath) ==
    IF ~isItemNameValid(getItemNameFromPath(fullPath))
    THEN Err(fs, "InvalidName")
    ELSE IF Exists(fs, fullPath)
    THEN Err(fs, "AlreadyExists")
    ELSE IF getItemTypeFromPath(fullPath) = "folder"
    THEN Ok(Put(fs, fullPath, EmptyInfo))
    ELSE Ok(changeCurrentFile(
                Put(fs, fullPath, [content |-> "", current |-> TRUE, tabs |-> TRUE]),
                fullPath))

\* deleteItem without the src folder added when one entry is left
deleteItem_NoSrc(fs, fullPath) ==
    LET isCurrentFile == HasKey(fs, fullPath) /\ Truthy(Get(fs, fullPath), "current")
        removed == SelectSeq(fs, LAMBDA e : ~StartsWith(e.path, fullPath))
        withParent == Put(removed, getParentPathFromPath(fullPath), EmptyInfo)
    IN  IF isCurrentFile THEN changeCurrentFileToTheLastTab(withParent) ELSE withParent

deleteItem(fs, fullPath) ==
    LET isCurrentFile == HasKey(fs, fullPath) /\ Truthy(Get(fs, fullPath), "current")
        removed == SelectSeq(fs, LAMBDA e : ~StartsWith(e.path, fullPath))
        parentPath == getParentPathFromPath(fullPath)
        withParent == Put(removed, parentPath, EmptyInfo)
        withSrc == IF Len(withParent) = 1
                   THEN Put(withParent, parentPath \o <<"s", "r", "c", "/">>, EmptyInfo)
                   ELSE withParent
    IN  IF isCurrentFile THEN changeCurrentFileToTheLastTab(withSrc) ELSE withSrc

\* The inner loop of the folder branch: every segment followed by "/"
RECURSIVE RenamedPath(_, _, _, _)
RenamedPath(itemsArr, i, oldName, newName) ==
    IF i > Len(itemsArr) THEN <<>>
    ELSE (IF itemsArr[i] = oldName THEN newName ELSE itemsArr[i])
         \o <<"/">> \o RenamedPath(itemsArr, i + 1, oldName, newName)

\* The for-in loop of the folder branch without the test of files[newPath]
RECURSIVE RenameLoop_NoExistsTest(_, _, _, _, _)
RenameLoop_NoExistsTest(fs, keys, i, fullPath, newName) ==
    IF i > Len(keys) THEN Ok(fs)
    ELSE IF ~HasKey(fs, keys[i])
    THEN RenameLoop_NoExistsTest(fs, keys, i + 1, fullPath, newName)
    ELSE LET path == keys[i]
             oldName == getItemNameFromPath(fullPath)
             newPath == RenamedPath(Split(path), 1, oldName, newName)
         IN  RenameLoop_NoExistsTest(Put(Delete(fs, path), newPath, Get(fs, path)),
                                     keys, i + 1, fullPath, newName)

\* The for-in loop of the folder branch over the keys the map had when the
\* loop started: a key deleted before its turn is skipped, a key added by
\* the loop is not visited
RECURSIVE RenameLoop(_, _, _, _, _)
RenameLoop(fs, keys, i, fullPath, newName) ==
    IF i > Len(keys) THEN Ok(fs)
    ELSE IF ~HasKey(fs, keys[i]) THEN RenameLoop(fs, keys, i + 1, fullPath, newName)
    ELSE LET path == keys[i]
             oldName == getItemNameFromPath(fullPath)
             newPath == RenamedPath(Split(path), 1, oldName, newName)
         IN  IF Exists(fs, newPath) THEN Err(fs, "AlreadyExists")
             ELSE RenameLoop(Put(Delete(fs, path), newPath, Get(fs, path)),
                             keys, i + 1, fullPath, newName)

\* renameItem whose file branch sets the new path without deleting the old one
renameItem_KeepsOld(fs, fullPath, newName) ==
    IF ~isItemNameValid(newName)
    THEN Err(fs, "InvalidName")
    ELSE IF getItemTypeFromPath(fullPath) = "file"
    THEN LET parentFolder == getParentPathFromPath(fullPath)
             newPath == parentFolder \o newName
         IN  IF Exists(fs, newPath) THEN Err(fs, "AlreadyExists")
             ELSE Ok(Put(fs, newPath, Get(fs, fullPath)))
    ELSE RenameLoop(fs, Keys(fs), 1, fullPath, newName)

renameItem(fs, fullPath, newName) ==
    IF ~isItemNameValid(newName)
    THEN Err(fs, "InvalidName")
    ELSE IF getItemTypeFromPath(fullPath) = "file"
    THEN LET parentFolder == getParentPathFromPath(fullPath)
             newPath == parentFolder \o newName
         IN  IF Exists(fs, newPath) THEN Err(fs, "AlreadyExists")
             ELSE Ok(Put(Delete(fs, fullPath), newPath, Get(fs, fullPath)))
    ELSE RenameLoop(fs, Keys(fs), 1, fullPath, newName)

----------------------------------------------------------------------------
(* The calls the user interface makes, and their arguments *)

\* Paths given to newItem: /a  /ab  /a/  /a/b  /b/  and /.a
NewPaths ==
    { <<"/", "a">>, <<"/", "a", "b">>, <<"/", "a", "/">>,
      <<"/", "a", "/", "b">>, <<"/", "b", "/">>, <<"/", ".", "a">> }

\* Folders of the tree that are not always keys of the map
FolderPaths == { <<"/", "a", "/">>, <<"/", "b", "/">>, <<"/", "s", "r", "c", "/">> }

\* Names given to renameItem: a, b and the invalid name .
NewNames == { <<"a">>, <<"b">>, <<".">> }

\* Contents given to saveFile
Contents == { "fn main" }

\* An existing entry whose path is a file path
IsFileEntry(fs, path) == HasKey(fs, path) /\ getItemTypeFromPath(path) = "file"

\* An existing entry whose path is a folder path
IsFolderEntry(fs, path) == HasKey(fs, path) /\ getItemTypeFromPath(path) = "folder"

\* A folder the tree shows: a key, or a prefix of a key
IsShownFolder(fs, path) ==
    /\ getItemTypeFromPath(path) = "folder"
    /\ \E k \in KeySet(fs) : StartsWith(k, path)

Call(op, path, arg, err) == [op |-> op, path |-> path, arg |-> arg, err |-> err]

\* The first instance is constructed while localStorage is empty: its
\* _explorer is the object DEFAULT_EXPLORER itself, which the constructor
\* has written to localStorage.  From here on files is the value of that
\* one object, whoever holds a reference to it.
Init ==
    /\ files = DEFAULT_EXPLORER
    /\ last = Call("constructor", <<>>, <<>>, "none")
    /\ calls = 0
    /\ ls = <<JSONstringify(DEFAULT_EXPLORER)>>
    /\ other = [kind |-> "none"]

NewItem ==
    \E p \in NewPaths :
        /\ LET r == newItem(files, p)
           IN  /\ files' = r.files
               /\ last' = Call("newItem", p, <<>>, r.err)

DeleteItem ==
    \E p \in KeySet(files) \cup NewPaths \cup FolderPaths :
        /\ files' = deleteItem(files, p)
        /\ last' = Call("deleteItem", p, <<>>, "none")

RenameItem ==
    \E p \in KeySet(files) \cup FolderPaths, n \in NewNames :
        /\ IsFileEntry(files, p) \/ IsShownFolder(files, p)
        /\ LET r == renameItem(files, p, n)
           IN  /\ files' = r.files
               /\ last' = Call("renameItem", p, n, r.err)

SaveFile ==
    \E p \in KeySet(files) \cup NewPaths, c \in Contents :
        /\ files' = saveFile(files, p, c)
        /\ last' = Call("saveFile", p, c, "none")

ChangeCurrentFile ==
    \E p \in KeySet(files) :
        /\ IsFileEntry(files, p)
        /\ files' = changeCurrentFile(files, p)
        /\ last' = Call("changeCurrentFile", p, <<>>, "none")

RemoveFromTabs ==
    \E p \in KeySet(files) :
        /\ IsFileEntry(files, p)
        /\ files' = removeFromTabs(files, p)
        /\ last' = Call("removeFromTabs", p, <<>>, "none")

Called == calls < MaxCalls /\ calls' = calls + 1 /\ UNCHANGED <<ls, other>>

Next ==
    \/ Called /\ NewItem
    \/ Called /\ DeleteItem
    \/ Called /\ RenameItem
    \/ Called /\ SaveFile
    \/ Called /\ ChangeCurrentFile
    \/ Called /\ RemoveFromTabs

Spec == Init /\ [][Next]_vars

----------------------------------------------------------------------------
(* The explorer with localStorage and a second instance *)

\* The files of the second instance: an instance constructed while
\* localStorage was empty holds DEFAULT_EXPLORER, the object of the first
\* instance; one constructed from a stored text holds the parsed object
OtherFiles ==
    IF other.kind = "seeded" THEN files ELSE other.files

\* new Explorer()
Construct ==
    /\ IF ls # <<>>
       THEN /\ other' = [kind |-> "loaded", files |-> JSONparse(ls[1])]
            /\ ls' = ls
       ELSE /\ other' = [kind |-> "seeded"]
            /\ ls' = <<JSONstringify(files)>>
    /\ last' = Call("constructor", <<>>, <<>>, "none")
    /\ UNCHANGED files

\* saveLs() of the first instance
SaveLs ==
    /\ ls' = <<JSONstringify(files)>>
    /\ last' = Call("saveLs", <<>>, <<>>, "none")
    /\ UNCHANGED <<files, other>>

\* localStorage is emptied (the item EXPLORER_KEY is gone)
ClearStore ==
    /\ ls # <<>>
    /\ ls' = <<>>
    /\ last' = Call("clear", <<>>, <<>>, "none")
    /\ UNCHANGED <<files, other>>

StoreCalled == calls < MaxStoreCalls /\ calls' = calls + 1

Mutated == StoreCalled /\ UNCHANGED <<ls, other>>

NextStore ==
    \/ Mutated /\ NewItem
    \/ Mutated /\ DeleteItem
    \/ Mutated /\ RenameItem
    \/ Mutated /\ SaveFile
    \/ Mutated /\ ChangeCurrentFile
    \/ Mutated /\ RemoveFromTabs
    \/ StoreCalled /\ Construct
    \/ StoreCalled /\ SaveLs
    \/ StoreCalled /\ ClearStore

SpecStore == Init /\ [][NextStore]_vars

----------------------------------------------------------------------------
(* The explorer with nested folders and the listing of a folder *)

\* Paths given to newItem in nested folders: /a/src/b  /a/src/  /src/a/b
NestedPaths ==
    { <<"/", "a", "/", "s", "r", "c", "/", "b">>,
      <<"/", "a", "/", "s", "r", "c", "/">>,
      <<"/", "s", "r", "c", "/", "a", "/", "b">> }

\* Folders given to getFolderContent: the root, the folders of the tree and
\* the nested folders
ListedPaths ==
    { <<"/">>, <<"/", "a", "/", "s", "r", "c", "/">>,
      <<"/", "s", "r", "c", "/", "a", "/">> } \cup FolderPaths

NewNestedItem ==
    \E p \in NestedPaths :
        /\ LET r == newItem(files, p)
           IN  /\ files' = r.files
               /\ last' = Call("newItem", p, <<>>, r.err)

\* getFolderContent(path) of a folder the tree shows; the call returns
\* filesAndFolders and leaves the map alone
GetFolderContent ==
    \E p \in ListedPaths :
        /\ IsShownFolder(files, p)
        /\ last' = Call("getFolderContent", p, getFolderContent(files, p), "none")
        /\ UNCHANGED files

FolderCalled ==
    calls < MaxFolderCalls /\ calls' = calls + 1 /\ UNCHANGED <<ls, other>>

NextFolder ==
    \/ FolderCalled /\ NewItem
    \/ FolderCalled /\ NewNestedItem
    \/ FolderCalled /\ DeleteItem
    \/ FolderCalled /\ RenameItem
    \/ FolderCalled /\ SaveFile
    \/ FolderCalled /\ ChangeCurrentFile
    \/ FolderCalled /\ RemoveFromTabs
    \/ FolderCalled /\ GetFolderContent

SpecFolder == Init /\ [][NextFolder]_vars

----------------------------------------------------------------------------
(* Properties *)

\* The indices of the entries with a truthy current
CurrentEntries(fs) == {i \in 1..Len(fs) : Truthy(fs[i].info, "current")}

\* C1: after any sequence of newItem, deleteItem, renameItem, saveFile,
\* changeCurrentFile and removeFromTabs calls on the seeded default project,
\* at most one entry of the map has current = true.
C1_AtMostOneCurrent == Cardinality(CurrentEntries(files)) <= 1

\* C1 witness: changeCurrentFile has moved the flag from one file to another
C1_Witness ==
    /\ last.op = "changeCurrentFile"
    /\ CurrentEntries(files) = {IndexOf(files, last.path)}
    /\ \E i \in 1..Len(files) :
           /\ files[i].path # last.path
           /\ "current" \in DOMAIN files[i].info
           /\ files[i].info.current = FALSE

\* C2: in every reachable state the entry with current = true, if any, also
\* has tabs = true, so the file getCurrentFile returns is one of getTabs.
C2_CurrentIsTab ==
    \A i \in CurrentEntries(files) : Truthy(files[i].info, "tabs")

\* The entry of fs at key path, for a key of fs
EntryAt(fs, path) == fs[IndexOf(fs, path)]

\* q is p or lies under p on a segment boundary
OnSegmentBoundary(q, p) ==
    \/ q = p
    \/ IF EndsWithSlash(p) THEN StartsWith(q, p) ELSE StartsWith(q, p \o <<"/">>)

\* C3: a successful renameItem of a folder re-keys exactly its descendants by
\* replacing the folder's segment with the new name: every key q under the
\* folder becomes parentPath(folder) + newName + "/" + (rest of q), a file
\* path stays a file path, the entry keeps its content, tabs and current, and
\* no key starting with the old folder path is left.
C3_FolderRenameRekeys ==
    [][ ( /\ last'.op = "renameItem"
          /\ last'.err = "none"
          /\ getItemTypeFromPath(last'.path) = "folder"
          /\ last'.arg # getItemNameFromPath(last'.path) )
        => LET old == last'.path
               new == getParentPathFromPath(old) \o last'.arg \o <<"/">>
           IN  /\ \A i \in 1..Len(files) :
                      StartsWith(files[i].path, old)
                      => LET q == new \o SubSeq(files[i].path, Len(old) + 1,
                                                Len(files[i].path))
                         IN  /\ HasKey(files', q)
                             /\ Get(files', q) = files[i].info
               /\ \A k \in KeySet(files') : ~StartsWith(k, old) ]_vars

\* C4: when renameItem of a folder returns AlreadyExists the map is exactly
\* as it was before the call.
C4_FailedFolderRenameKeepsMap ==
    [][ ( /\ last'.op = "renameItem"
          /\ last'.err = "AlreadyExists"
          /\ getItemTypeFromPath(last'.path) = "folder" )
        => files' = files ]_vars

\* C5: deleteItem(p) removes an entry q only when q = p or q lies under p on
\* a segment boundary; deleting the file /foo leaves its sibling /foobar.
C5_DeleteOnSegmentBoundary ==
    [][ ( /\ last'.op = "deleteItem"
          /\ HasKey(files, last'.path) )
        => \A q \in KeySet(files) :
               ~HasKey(files', q) => OnSegmentBoundary(q, last'.path) ]_vars

\* C6: after deleteItem(p), if the removed entries (p or a descendant of p)
\* included the current file, then the last of getTabs() is the current file
\* when a tab remains, and no entry is current when no tab remains.
C6_DeleteRetargetsCurrent ==
    [][ ( /\ last'.op = "deleteItem"
          /\ getCurrentFile(files) # <<>>
          /\ \/ getCurrentFile(files) = last'.path
             \/ /\ getItemTypeFromPath(last'.path) = "folder"
                /\ StartsWith(getCurrentFile(files), last'.path) )
        => LET tabs == getTabs(files')
           IN  IF Len(tabs) > 0
               THEN getCurrentFile(files') = tabs[Len(tabs)].path
               ELSE CurrentEntries(files') = {} ]_vars

\* C7: after any deleteItem(p) the map is not empty, it holds an entry
\* without content at parentPath(p), and that entry is never the only one:
\* when nothing else is left the folder parentPath(p) + "src/" is there too.
C7_DeleteLeavesFolders ==
    last.op = "deleteItem"
    => LET parentPath == getParentPathFromPath(last.path)
           srcPath == parentPath \o <<"s", "r", "c", "/">>
       IN  /\ Len(files) > 0
           /\ HasKey(files, parentPath)
           /\ "content" \notin DOMAIN Get(files, parentPath)
           /\ KeySet(files) \subseteq {parentPath, srcPath}
              => HasKey(files, srcPath)

\* C7 witness: every item was deleted and the two folders are what is left
C7_Witness ==
    /\ last.op = "deleteItem"
    /\ calls >= 2
    /\ Len(files) = 2
    /\ KeySet(files) = { getParentPathFromPath(last.path),
                         getParentPathFromPath(last.path) \o <<"s", "r", "c", "/">> }

\* C8: after a successful newItem of a file path the entry has content "",
\* tabs = true and current = true, it is the only entry with current = true,
\* and getCurrentFile returns it.
C8_NewFileIsTheCurrentFile ==
    ( /\ last.op = "newItem"
      /\ last.err = "none"
      /\ getItemTypeFromPath(last.path) = "file" )
    => /\ HasKey(files, last.path)
       /\ Get(files, last.path) = [content |-> "", tabs |-> TRUE, current |-> TRUE]
       /\ CurrentEntries(files) = {IndexOf(files, last.path)}
       /\ getCurrentFile(files) = last.path

\* C8 witness: a file was created as the first call, while the default file
\* was current, and the default file has lost the flag
C8_Witness ==
    /\ last.op = "newItem"
    /\ last.err = "none"
    /\ getItemTypeFromPath(last.path) = "file"
    /\ calls = 1
    /\ HasKey(files, DEFAULT_FILE)
    /\ Get(files, DEFAULT_FILE).current = FALSE
    /\ getCurrentFile(files) = last.path

\* C9: deleteItem(p) for a path p that is not a key and has no entry beneath
\* it leaves the map as it was.
C9_DeleteAbsentIsNoOp ==
    [][ ( /\ last'.op = "deleteItem"
          /\ \A k \in KeySet(files) : ~StartsWith(k, last'.path) )
        => files' = files ]_vars

\* C10: saveFile(path, content) changes only the content of an existing file
\* entry; when path is absent or is a folder entry the map is unchanged, and
\* no key, tabs or current flag ever changes.
C10_SaveFileFrame ==
    [][ last'.op = "saveFile"
        => /\ Keys(files') = Keys(files)
           /\ \A i \in 1..Len(files) :
                  IF files[i].path = last'.path /\ IsFileEntry(files, last'.path)
                  THEN files'[i].info = SetProp(files[i].info, "content", last'.arg)
                  ELSE files'[i].info = files[i].info ]_vars

\* The folders deleteItem(p) puts back: parentPath(p) and, when nothing else
\* is left, parentPath(p) + "src/"
ReinsertedFolders(p) ==
    { getParentPathFromPath(p),
      getParentPathFromPath(p) \o <<"s", "r", "c", "/">> }

\* C11: deleteItem of a folder path F removes exactly the entries whose path
\* starts with F; every entry outside that subtree stays in the map with its
\* content, tabs and current unchanged.
C11_FolderDeleteFrame ==
    [][ ( /\ last'.op = "deleteItem"
          /\ getItemTypeFromPath(last'.path) = "folder"
          /\ \E k \in KeySet(files) : StartsWith(k, last'.path) )
        => \A i \in 1..Len(files) :
               IF StartsWith(files[i].path, last'.path)
               THEN \/ ~HasKey(files', files[i].path)
                    \/ /\ files[i].path \in ReinsertedFolders(last'.path)
                       /\ Get(files', files[i].path) = EmptyInfo
               ELSE /\ HasKey(files', files[i].path)
                    /\ Get(files', files[i].path) = files[i].info ]_vars

\* C12: in every reachable state, if the map contains at least one file
\* entry then exactly one entry has current = true.
C12_ExactlyOneCurrent ==
    (\E k \in KeySet(files) : IsFileEntry(files, k))
    => Cardinality(CurrentEntries(files)) = 1

\* C13: calling removeFromTabs(p) twice in a row on an existing file p leaves
\* the same map as calling it once: in the state a removeFromTabs(p) call
\* has produced, one more removeFromTabs(p) changes nothing.
C13_RemoveFromTabsIdempotent ==
    last.op = "removeFromTabs"
    => removeFromTabs(files, last.path) = files

\* C13 witness: a tab was closed while another tab stayed open, and the
\* current file is that other tab
C13_Witness ==
    /\ last.op = "removeFromTabs"
    /\ Len(getTabs(files)) > 0
    /\ getCurrentFile(files) # <<>>
    /\ getCurrentFile(files) # last.path
    /\ ~Truthy(Get(files, last.path), "tabs")

\* C14: after removeFromTabs(p) on an existing file p, p is not in getTabs(),
\* the tabs flag of every other entry is unchanged, and when getTabs() is
\* not empty the current file is its last element.
C14_RemoveFromTabsRetargets ==
    [][ last'.op = "removeFromTabs"
        => LET p == last'.path
               tabs == getTabs(files')
           IN  /\ \A i \in 1..Len(tabs) : tabs[i].path # p
               /\ Keys(files') = Keys(files)
               /\ \A i \in 1..Len(files) :
                      files[i].path # p
                      => /\ ("tabs" \in DOMAIN files'[i].info)
                             = ("tabs" \in DOMAIN files[i].info)
                         /\ Truthy(files'[i].info, "tabs")
                             = Truthy(files[i].info, "tabs")
               /\ Len(tabs) > 0
                  => /\ getCurrentFile(files') = tabs[Len(tabs)].path
                     /\ CurrentEntries(files')
                            = {IndexOf(files', tabs[Len(tabs)].path)} ]_vars

\* C14 witness: a tab that was not the last one was closed and the last tab,
\* of at least two left, is the current file
C14_Witness ==
    /\ last.op = "removeFromTabs"
    /\ ~Truthy(Get(files, last.path), "tabs")
    /\ Len(getTabs(files)) >= 2
    /\ getCurrentFile(files) = getTabs(files)[Len(getTabs(files))].path

\* A valid name as the specification words it: it does not start with ".",
\* holds neither "//" nor "..", and is made of letters, digits, "_", "." and
\* "-" only
NameIsValid(name) ==
    /\ name # <<>>
    /\ name[1] # "."
    /\ \A i \in 1..Len(name) : name[i] \in WordChars \cup {".", "-"}
    /\ \A i \in 1..(Len(name) - 1) : ~(name[i] = "." /\ name[i + 1] = ".")

\* C15: newItem(path) returns InvalidName when the item name of path is not a
\* valid name, and otherwise AlreadyExists when path is already a key; in
\* both cases the map is unchanged.
C15_NewItemErrors ==
    [][ last'.op = "newItem"
        => LET name == getItemNameFromPath(last'.path)
           IN  /\ ~NameIsValid(name) => last'.err = "InvalidName"
               /\ NameIsValid(name) /\ HasKey(files, last'.path)
                  => last'.err = "AlreadyExists"
               /\ last'.err # "none" => files' = files ]_vars

\* C15 witness: newItem has refused a path that is already a key
C15_Witness ==
    /\ last.op = "newItem"
    /\ last.err = "AlreadyExists"
    /\ HasKey(files, last.path)
    /\ calls >= 2

\* C16: every construction of an Explorer while the store holds no saved tree
\* yields a map that is exactly the default single-file project and writes
\* that tree to the store, also after an earlier seeded instance was mutated;
\* and mutations of one seeded instance never change another instance's map.
C16_SeededInstanceIsDefault ==
    other.kind = "seeded"
    => /\ OtherFiles = DEFAULT_EXPLORER
       /\ last.op = "constructor" => ls = <<JSONstringify(DEFAULT_EXPLORER)>>

\* The number of entries of fs that carry the ItemInfo info
CountInfo(fs, info) == Cardinality({i \in 1..Len(fs) : fs[i].info = info})

\* C17: renameItem on an existing item, whether it succeeds or returns an
\* error, never loses or duplicates an entry: the number of entries and the
\* multiset of the (content, tabs, current) values they carry are unchanged.
C17_RenameKeepsEntries ==
    [][ last'.op = "renameItem"
        => /\ Len(files') = Len(files)
           /\ Cardinality(KeySet(files')) = Len(files')
           /\ \A i \in 1..Len(files) :
                  CountInfo(files', files[i].info) = CountInfo(files, files[i].info)
      ]_vars

\* C17 witness: a folder rename of a map of three or more entries has
\* stopped with AlreadyExists after it had re-keyed an entry
C17_Witness ==
    /\ last.op = "renameItem"
    /\ last.err = "AlreadyExists"
    /\ getItemTypeFromPath(last.path) = "folder"
    /\ Len(files) >= 3
    /\ \E k \in KeySet(files) : IncludesSlashSlash(k) \/ Len(k) > Len(DEFAULT_FILE)

\* path has a segment equal to name
HasSegment(path, name) ==
    \E j \in 1..Len(Split(path)) : Split(path)[j] = name

\* C18: a successful renameItem of a folder changes only the entries whose
\* path has a segment equal to the folder's old name; every other entry
\* keeps its key and its content, tabs and current.
C18_FolderRenameFrame ==
    [][ ( /\ last'.op = "renameItem"
          /\ last'.err = "none"
          /\ getItemTypeFromPath(last'.path) = "folder" )
        => \A i \in 1..Len(files) :
               ~HasSegment(files[i].path, getItemNameFromPath(last'.path))
               => /\ HasKey(files', files[i].path)
                  /\ Get(files', files[i].path) = files[i].info ]_vars

\* C19: renameItem of an existing file path p with a valid newName returns
\* AlreadyExists and leaves the map unchanged when parentPath(p) + newName is
\* already a key; otherwise it removes key p, adds key parentPath(p) + newName
\* carrying p's content, tabs and current unchanged, and leaves every other
\* entry untouched.
C19_FileRename ==
    [][ ( /\ last'.op = "renameItem"
          /\ IsFileEntry(files, last'.path)
          /\ NameIsValid(last'.arg) )
        => LET p == last'.path
               newPath == getParentPathFromPath(p) \o last'.arg
           IN  IF HasKey(files, newPath)
               THEN last'.err = "AlreadyExists" /\ files' = files
               ELSE /\ last'.err = "none"
                    /\ KeySet(files') = (KeySet(files) \ {p}) \cup {newPath}
                    /\ Len(files') = Len(files)
                    /\ Get(files', newPath) = Get(files, p)
                    /\ \A k \in KeySet(files) \ {p} :
                           Get(files', k) = Get(files, k) ]_vars

\* C19 witness: the current file, one with content, has been renamed while
\* the map holds another entry
C19_Witness ==
    /\ last.op = "renameItem"
    /\ last.err = "none"
    /\ getItemTypeFromPath(last.path) = "file"
    /\ ~HasKey(files, last.path)
    /\ LET newPath == getParentPathFromPath(last.path) \o last.arg
       IN  /\ HasKey(files, newPath)
           /\ "content" \in DOMAIN Get(files, newPath)
           /\ Truthy(Get(files, newPath), "current")
    /\ Len(files) >= 2

\* The elements of an array
Elements(arr) == {arr[i] : i \in 1..Len(arr)}

\* The names of the items immediately under the folder path: for every key
\* that starts with path, its first segment after the prefix
ChildNames(fs, path) ==
    { Split(SubSeq(k, Len(path) + 1, Len(k)))[1] :
          k \in {kk \in KeySet(fs) : StartsWith(kk, path)} } \ {<<>>}

\* C20: getFolderContent(path) for a folder path returns exactly the names of
\* the items immediately under that folder: a name is listed iff some key
\* starts with path and the name is that key's first segment after the path
\* prefix; items of a folder of the same name deeper in the tree are not
\* listed.
C20_FolderContentIsChildren ==
    last.op = "getFolderContent"
    => Elements(last.arg.folders) \cup Elements(last.arg.files)
           = ChildNames(files, last.path)

\* The six calls that change the map
MutationOps ==
    {"newItem", "deleteItem", "renameItem", "saveFile", "changeCurrentFile",
     "removeFromTabs"}

\* The map fs has the keys of the stored text in the same order, each with
\* the content, tabs and current of the text
SameAsText(fs, text) ==
    /\ Len(fs) = Len(text)
    /\ \A i \in 1..Len(text) :
           /\ fs[i].path = text[i].key
           /\ fs[i].info = text[i].value

=============================================================================
